---- MODULE Spec2Model ----
(***************************************************************************)
(* Runtime widget loader (RuntimeWidgetLoaderService), the widget          *)
(* installer (RuntimeWidgetInstallerService and its modal) and             *)
(* removeWidgetFromApp as a state machine.                                 *)
(*                                                                         *)
(* One step of the model is one run-to-completion task of the browser's    *)
(* event loop: the code between two awaits of loadRuntimeWidgets, or one   *)
(* synchronous observable callback chain of the patched                    *)
(* DynamicComponentComponent.  Everything the environment answers (the     *)
(* application list, the result of an import, of a module compilation) is  *)
(* drawn from a small set at the step that consumes the answer.            *)
(*                                                                         *)
(* Spec is one page load: the loader and the host's render requests.       *)
(* StoreSpec is the sequences of completed loader runs, installs and       *)
(* removals over the inventory, one operation per page load.               *)
(***************************************************************************)
EXTENDS Integers, Sequences, FiniteSets, TLC

VARIABLES
    pc,                        \* position of loadRuntimeWidgets
    isLoaded,                  \* value of the BehaviorSubject isLoaded$
    widgetFactories,           \* Map<string, WidgetComponentFactoriesAndInjector>
    store,                     \* inventory: the app_runtimeContext managed objects
    appList,                   \* applications returned for the user
    app,                       \* the resolved current application
    AppRuntimePath,            \* the loader's local copy of the context record
    contextPaths,              \* identifiers to attempt
    idx,                       \* position of the for-of loop over contextPaths
    widgetCounter,
    jsModules,                 \* imported exports objects
    cleanupWidgetContextPath,
    xpos,                      \* position of the extraction loops (flattened)
    ngModules,                 \* activated modules
    attempts,                  \* history: what happened to each attempted identifier
    loadingAlert,              \* the UpdateableAlert
    alerts,                    \* alertService.danger calls
    console,                   \* console.error calls
    uncaught,                  \* the error loadRuntimeWidgets rejected with
    updates,                   \* invService.update calls issued by the loader
    hostState,                 \* DynamicComponentService state (the host registry)
    components,                \* DynamicComponentComponent instances
    modal,                     \* RuntimeWidgetInstallerModalComponent
    install,                   \* the call of RuntimeWidgetInstallerService in flight
    remove,                    \* the call of removeWidgetFromApp in flight
    installOther               \* a call of the installer that overlaps the others

vars == <<pc, isLoaded, widgetFactories, store, appList, app, AppRuntimePath,
          contextPaths, idx, widgetCounter, jsModules, cleanupWidgetContextPath,
          xpos, ngModules, attempts, loadingAlert, alerts, console, uncaught,
          updates, hostState, components, modal, install, remove, installOther>>

\* the installer modal, the installer service and removeWidgetFromApp
pageVars == <<modal, install, remove, installOther>>

loaderVars == <<pc, widgetFactories, appList, app, AppRuntimePath,
          contextPaths, idx, widgetCounter, jsModules, cleanupWidgetContextPath,
          xpos, ngModules, attempts, loadingAlert, alerts, console, uncaught,
          updates>>

----------------------------------------------------------------------------
(* Bounds of the model *)

MaxPaths == 2          \* longest widgetContextPaths list of a stored record
MaxComponents == 2     \* DynamicComponentComponent instances rendered

----------------------------------------------------------------------------
(* Values *)

Undefined == [kind |-> "undefined"]

\* the path contextPathFromURL() yields for the running host application
CurrentPath == "host"

\* bundle identifiers; "" is the empty identifier the loop skips
BundleIds == {"a", "b"}
PathValues == BundleIds \cup {""}

RECURSIVE SeqsUpTo(_, _)
SeqsUpTo(S, n) ==
    IF n = 0 THEN {<<>>}
    ELSE LET shorter == SeqsUpTo(S, n - 1)
         IN shorter \cup {Append(s, x) : s \in shorter, x \in S}

NoDuplicates(s) == \A i, j \in 1..Len(s) : s[i] = s[j] => i = j

PathLists == {s \in SeqsUpTo(PathValues, MaxPaths) : NoDuplicates(s)}

SeqToSet(s) == {s[i] : i \in 1..Len(s)}

\* the least index of a set of indexes, 0 when there is none (find, indexOf)
FirstIndex(I) == IF I = {} THEN 0 ELSE CHOOSE i \in I : \A j \in I : i <= j

\* Array.from([...]) without the Set
Concatenated(s) == s

\* Array.from(new Set([...])): first occurrences, in order
RECURSIVE Dedup(_)
Dedup(s) ==
    IF s = <<>> THEN <<>>
    ELSE LET r == Dedup(SubSeq(s, 1, Len(s) - 1))
             x == s[Len(s)]
         IN IF x \in SeqToSet(r) THEN r ELSE Append(r, x)

\* Array.prototype.splice(i): everything from position i is removed
RemoveFrom(s, i) == SubSeq(s, 1, i - 1)

\* Array.prototype.splice(i, 1)
RemoveAt(s, i) == SubSeq(s, 1, i - 1) \o SubSeq(s, i + 1, Len(s))

----------------------------------------------------------------------------
(* The environment's answers *)

Application(id, path, availability, wcp) ==
    [id |-> id, contextPath |-> path, availability |-> availability,
     widgetContextPaths |-> wcp]

PrivateApp == Application("p", CurrentPath, "PRIVATE", <<"a">>)
SubscribedApp == Application("s", CurrentPath, "MARKET", <<"b">>)
WidgetApp(b) == Application(b, b, "PRIVATE", <<>>)

HostApps == {<<>>, <<PrivateApp>>, <<SubscribedApp>>, <<SubscribedApp, PrivateApp>>}
WidgetApps == {<<WidgetApp("a")>>, <<WidgetApp("b")>>}

\* what /application/applicationsByUser can answer
AppLists == {<<>>} \cup {h \o w : h \in HostApps \ {<<>>}, w \in WidgetApps}

RuntimeContext(id, appId, wcp) ==
    [id |-> id, appId |-> appId, widgetContextPaths |-> wcp]

\* what the inventory can hold when the host application starts
Stores == {<<>>} \cup {<<RuntimeContext("r1", "p", l)>> : l \in PathLists}

\* a DynamicComponentDefinition of a bundle: can its component / configComponent
\* be resolved by the module's componentFactoryResolver?
Definition(id, component, configComponent) ==
    [id |-> id, component |-> component, configComponent |-> configComponent]

\* an entry of HOOK_COMPONENTS: one definition, or an array of definitions
One(d) == [isArray |-> FALSE, defs |-> <<d>>]
Many(ds) == [isArray |-> TRUE, defs |-> ds]

Other == [kind |-> "other"]              \* a re-exported helper or constant
Null == [kind |-> "null"]                \* an export whose value is null/undefined
NgModule(hooks) == [kind |-> "module", hooks |-> hooks]

ExportsA ==
    { <<Other, NgModule(<<One(Definition("w1", "ok", "ok"))>>)>>,
      <<NgModule(<<Many(<<Definition("w1", "bad", "none"),
                          Definition("w2", "ok", "none")>>)>>)>>,
      <<Other>>,
      <<NgModule(<<One(Definition("w1", "ok", "none"))>>),
        NgModule(<<One(Definition("w1", "ok", "ok")),
                   One(Definition("w2", "ok", "bad"))>>)>> }

ExportsB ==
    { <<NgModule(<<One(Definition("w1", "ok", "none"))>>)>>,
      <<NgModule(<<One(Definition("w2", "ok", "ok"))>>), Null>> }

\* what __webpack_require__.interleaved can yield for a bundle
ExportsOf(b) == IF b = "a" THEN ExportsA ELSE ExportsB

----------------------------------------------------------------------------
(* loadRuntimeWidgets: helpers *)

\* lines 235-241: the privately-owned application first, then any application
FindApp(al) ==
    LET own == FirstIndex({i \in 1..Len(al) : al[i].contextPath = CurrentPath
                                              /\ al[i].availability = "PRIVATE"})
        any == FirstIndex({i \in 1..Len(al) : al[i].contextPath = CurrentPath})
    IN IF own # 0 THEN al[own] ELSE IF any # 0 THEN al[any] ELSE Undefined

\* line 243: AppRuntimePathList.find(path => path.appId === app.id)
FindRuntimePath(st, a) ==
    LET i == FirstIndex({j \in 1..Len(st) : st[j].appId = a.id})
    IN IF i = 0 THEN Undefined ELSE st[i]

\* the two lists one after the other, without the Set
UnionOfPathsConcatenated(a, rp) ==
    a.widgetContextPaths \o (IF rp = Undefined THEN <<>> ELSE rp.widgetContextPaths)

\* lines 245-248
UnionOfPaths(a, rp) ==
    Dedup(a.widgetContextPaths
          \o (IF rp = Undefined THEN <<>> ELSE rp.widgetContextPaths))

\* a loop that takes the identifiers out of order
NextPathLast(cp, from) ==
    LET I == {i \in from..Len(cp) : cp[i] # ""}
    IN IF I = {} THEN 0 ELSE CHOOSE i \in I : \A j \in I : j <= i

\* line 255: the next identifier the loop does not skip, from position `from`
NextPath(cp, from) ==
    FirstIndex({i \in from..Len(cp) : cp[i] # ""})

\* lines 285-287: the exported values of all imported bundles, in loop order
RECURSIVE Flatten(_)
Flatten(js) ==
    IF js = <<>> THEN <<>>
    ELSE LET m == js[Len(js)]
         IN Flatten(SubSeq(js, 1, Len(js) - 1))
            \o [k \in 1..Len(m.exports) |->
                  [b |-> m.contextPath, k |-> k, v |-> m.exports[k]]]

\* line 289: the next exported value the loop does not pass over silently
NextExport(q, from) ==
    FirstIndex({i \in from..Len(q) : q[i].v.kind # "other"})

LogEntry(what, b, k, w) == [what |-> what, b |-> b, k |-> k, w |-> w]

----------------------------------------------------------------------------
(* The host registry and the patched DynamicComponentComponent *)

Factory(b, k, w, part) == [b |-> b, k |-> k, w |-> w, part |-> part]
NoFactory == Factory("", 0, 0, "none")
ModuleInjector(b, k) == [b |-> b, k |-> k]
HostInjector == ModuleInjector("", 0)

\* a definition held by the DynamicComponentService; (b, k, w) names the object
HostDefinition(id, runtime, b, k, w) ==
    [id |-> id, isRuntimeLoaded |-> runtime, b |-> b, k |-> k, w |-> w]

\* the statically loaded (built-in) definitions of the host
BuiltIns == <<HostDefinition("b1", FALSE, "", 0, 0)>>

\* the render requests of the host: a runtime widget and its config panel,
\* a built-in widget, and a widget nobody provides
Requests == {<<"w1", "component">>, <<"w1", "config">>,
             <<"b1", "component">>, <<"zz", "component">>}

\* `issued` remembers when the render request was made
NewComponent(id, mode, issued) ==
    [componentId |-> id, mode |-> mode, issued |-> issued,
     state |-> "Waiting", via |-> "none",
     factory |-> NoFactory, injector |-> HostInjector, loaded |-> FALSE,
     error |-> ""]

\* dynamicComponentService.getById$: the definition with this id, or undefined
GetById(hs, id) ==
    LET i == FirstIndex({j \in 1..Len(hs) : hs[j].id = id})
    IN IF i = 0 THEN Undefined ELSE hs[i]

\* a catch block that keeps no error on the instance
FailedUnrecorded(c, via, loaded, error) == c

\* lines 202-204: the catch block keeps the exception on the instance
Failed(c, via, loaded, error) ==
    [c EXCEPT !.state = "Error", !.via = via, !.loaded = loaded, !.error = error]

Created(c, via, loaded, factory, injector) ==
    [c EXCEPT !.state = "Resolved", !.via = via, !.loaded = loaded, !.error = "",
              !.factory = factory, !.injector = injector]

\* the host's own loadComponent, without the isRuntimeLoaded branch
loadComponentUnpatched(c, dynamicComponent, wf, loaded) ==
    IF dynamicComponent = Undefined
    THEN Failed(c, "none", loaded, "unknown")
    ELSE Created(c, "host", loaded,
                 Factory(dynamicComponent.b, dynamicComponent.k,
                         dynamicComponent.w, c.mode),
                 HostInjector)

\* lines 187-205; `loaded` is the value of isLoaded$ when the call is made
loadComponent(c, dynamicComponent, wf, loaded) ==
    IF dynamicComponent = Undefined
    THEN Failed(c, "none", loaded, "unknown")
    ELSE IF dynamicComponent.isRuntimeLoaded
    THEN IF c.componentId \notin DOMAIN wf
         THEN Failed(c, "runtime", loaded, "noEntry")
         ELSE LET e == wf[c.componentId]
                  f == IF c.mode = "component" THEN e.componentFactory
                       ELSE e.configComponentFactory
              IN IF f = NoFactory
                 THEN Failed(c, "runtime", loaded, "noFactory")
                 ELSE Created(c, "runtime", loaded, f, e.injector)
    ELSE Created(c, "host", loaded,
                 Factory(dynamicComponent.b, dynamicComponent.k,
                         dynamicComponent.w, c.mode),
                 HostInjector)

Unrecognised(cmp) == cmp = Undefined \/ cmp.isRuntimeLoaded

\* the subscription without the wait on isLoaded$
ngOnChangesEmissionNoWait(c, hs, wf, loaded) ==
    loadComponent(c, GetById(hs, c.componentId), wf, loaded)

\* a subscription that holds every component back until isLoaded$ is true
ngOnChangesEmissionWaitAlways(c, hs, wf, loaded) ==
    IF loaded THEN loadComponent(c, GetById(hs, c.componentId), wf, loaded) ELSE c

\* lines 208-222: what the subscription does when getById$ emits
ngOnChangesEmission(c, hs, wf, loaded) ==
    LET cmp == GetById(hs, c.componentId)
    IN IF Unrecognised(cmp)
       THEN IF loaded THEN loadComponent(c, GetById(hs, c.componentId), wf, loaded)
            ELSE c
       ELSE loadComponent(c, cmp, wf, loaded)

\* lines 213-218: what a subscription waiting on isLoaded$ does when it turns true
isLoadedEmission(c, hs, wf) ==
    IF Unrecognised(GetById(hs, c.componentId))
    THEN loadComponent(c, GetById(hs, c.componentId), wf, TRUE)
    ELSE c

----------------------------------------------------------------------------
(* The Component Registry Bridge *)

\* a map that keeps the first value written under a key
MapSetIfAbsent(f, key, value) ==
    [x \in DOMAIN f \cup {key} |-> IF x \in DOMAIN f THEN f[x] ELSE value]

\* Map.prototype.set
MapSet(f, key, value) ==
    [x \in DOMAIN f \cup {key} |-> IF x = key THEN value ELSE f[x]]

Constructible(d) == d.component = "ok" /\ d.configComponent # "bad"

FactoriesOf(b, k, w, d) ==
    [componentFactory |-> Factory(b, k, w, "component"),
     configComponentFactory |->
        IF d.configComponent = "none" THEN NoFactory ELSE Factory(b, k, w, "config"),
     injector |-> ModuleInjector(b, k)]

\* loadWidget with dynamicComponentService.add outside the try block
loadWidgetAddAlways(st, b, k, w, d, loaded) ==
    LET hs == Append(st.hs, HostDefinition(d.id, TRUE, b, k, w))
    IN IF Constructible(d)
       THEN LET wf == MapSet(st.wf, d.id, FactoriesOf(b, k, w, d))
            IN [st EXCEPT !.wf = wf, !.hs = hs,
                          !.comps = {ngOnChangesEmission(c, hs, wf, loaded) : c \in st.comps}]
       ELSE [st EXCEPT !.hs = hs,
                       !.comps = {ngOnChangesEmission(c, hs, st.wf, loaded) : c \in st.comps},
                       !.console = Append(st.console, LogEntry("widget", b, k, w)),
                       !.alerts = Append(st.alerts, LogEntry("widget", b, k, w))]

\* loadWidget whose catch block only writes to the console
loadWidgetSilent(st, b, k, w, d, loaded) ==
    IF Constructible(d)
    THEN LET wf == MapSet(st.wf, d.id, FactoriesOf(b, k, w, d))
             hs == Append(st.hs, HostDefinition(d.id, TRUE, b, k, w))
         IN [st EXCEPT !.wf = wf, !.hs = hs,
                       !.comps = {ngOnChangesEmission(c, hs, wf, loaded) : c \in st.comps}]
    ELSE [st EXCEPT !.console = Append(st.console, LogEntry("widget", b, k, w))]

\* lines 356-371; st carries the objects the call can change
loadWidget(st, b, k, w, d, loaded) ==
    IF Constructible(d)
    THEN LET wf == MapSet(st.wf, d.id, FactoriesOf(b, k, w, d))
             hs == Append(st.hs, HostDefinition(d.id, TRUE, b, k, w))
         IN [st EXCEPT !.wf = wf, !.hs = hs,
                       !.comps = {ngOnChangesEmission(c, hs, wf, loaded) : c \in st.comps}]
    ELSE [st EXCEPT !.console = Append(st.console, LogEntry("widget", b, k, w)),
                    !.alerts = Append(st.alerts, LogEntry("widget", b, k, w))]

\* lines 320-328: the definitions of HOOK_COMPONENTS, arrays flattened one level
RECURSIVE Widgets(_)
Widgets(hooks) ==
    IF hooks = <<>> THEN <<>>
    ELSE Widgets(SubSeq(hooks, 1, Len(hooks) - 1)) \o hooks[Len(hooks)].defs

RECURSIVE loadWidgets(_, _, _, _, _)
loadWidgets(st, m, ds, n, loaded) ==
    IF n = 0 THEN st
    ELSE loadWidget(loadWidgets(st, m, ds, n - 1, loaded), m.b, m.k, n, ds[n], loaded)

\* lines 316-329
RECURSIVE loadModules(_, _, _, _)
loadModules(st, mods, n, loaded) ==
    IF n = 0 THEN st
    ELSE LET ds == Widgets(mods[n].hooks)
         IN loadWidgets(loadModules(st, mods, n - 1, loaded), mods[n], ds, Len(ds), loaded)

\* a cleanup that splices the first identifier out whatever was marked
CleanupFirst(rp, cl, n) ==
    IF n = 0 \/ rp = Undefined \/ rp.widgetContextPaths = <<>> THEN rp
    ELSE [rp EXCEPT !.widgetContextPaths = Tail(rp.widgetContextPaths)]

\* lines 336-344: the record after the marked identifiers are spliced out
RECURSIVE Cleanup(_, _, _)
Cleanup(rp, cl, n) ==
    IF n = 0 \/ rp = Undefined THEN rp
    ELSE LET r == Cleanup(rp, cl, n - 1)
             i == FirstIndex({j \in 1..Len(r.widgetContextPaths) :
                                r.widgetContextPaths[j] = cl[n]})
         IN IF i = 0 THEN r
            ELSE [r EXCEPT !.widgetContextPaths = RemoveAt(r.widgetContextPaths, i)]

\* invService.update({id, widgetContextPaths})
StoreUpdate(st, u) ==
    [i \in 1..Len(st) |->
        IF st[i].id = u.id
        THEN [st[i] EXCEPT !.widgetContextPaths = u.widgetContextPaths]
        ELSE st[i]]

----------------------------------------------------------------------------
(* The widget installer and removeWidgetFromApp: values *)

\* what the file input of the modal can hold: nothing, a widget's zip file
\* with a cumulocity.json that names a context path, or some other file
NoFile == [kind |-> "none"]
WidgetFile(name, contextPath) ==
    [kind |-> "widget", name |-> name, contextPath |-> contextPath]
NotAWidget(name) == [kind |-> "other", name |-> name]

FileNames == {"w.zip", "my w.zip"}
Files == {WidgetFile(n, b) : n \in FileNames, b \in BundleIds}
         \cup {NotAWidget(n) : n \in FileNames}

\* modal lines 28-32
ModalIdle == [pc |-> "idle", busy |-> FALSE, current |-> "", result |-> ""]

\* no call of the installer service is in flight and none was made
InstallIdle ==
    [pc |-> "idle", entry |-> "", contextPath |-> "", file |-> NoFile,
     appList |-> <<>>, app |-> Undefined, read |-> Undefined,
     request |-> Undefined, process |-> "", result |-> "", error |-> ""]

\* no call of removeWidgetFromApp is in flight and none was made
RemoveIdle ==
    [pc |-> "idle", appId |-> "", contextPath |-> "", read |-> Undefined,
     request |-> Undefined, outcome |-> ""]

\* no other call of the installer service is in flight and none was made
OtherIdle ==
    [pc |-> "idle", app |-> Undefined, contextPath |-> "", read |-> Undefined,
     request |-> Undefined, process |-> ""]

----------------------------------------------------------------------------
(* loadRuntimeWidgets, one action per resumption *)

Alert(state, text) == [state |-> state, text |-> text]

\* an isLoaded$ that starts out true
isLoadedInitiallyTrue == TRUE

\* line 172: new BehaviorSubject(false)
isLoadedInitially == FALSE

Init ==
    /\ pc = "idle"
    /\ isLoaded = isLoadedInitially
    /\ widgetFactories = <<>>
    /\ store \in Stores
    /\ appList = <<>>
    /\ app = Undefined
    /\ AppRuntimePath = Undefined
    /\ contextPaths = <<>>
    /\ idx = 0
    /\ widgetCounter = 0
    /\ jsModules = <<>>
    /\ cleanupWidgetContextPath = <<>>
    /\ xpos = 0
    /\ ngModules = <<>>
    /\ attempts = <<>>
    /\ loadingAlert = Alert("none", "")
    /\ alerts = <<>>
    /\ console = <<>>
    /\ uncaught = ""
    /\ updates = <<>>
    /\ hostState = <<>>
    /\ components = {}
    /\ modal = ModalIdle
    /\ install = InstallIdle
    /\ remove = RemoveIdle
    /\ installOther = OtherIdle

\* an isLoaded$ that is never told the batch has finished
isLoadedNextMissing(loaded) == loaded

\* line 332: isLoaded$.next(true)
isLoadedNext(loaded) == TRUE

\* lines 285-303, from position `from` of the exported values q, up to the next
\* await (line 292 or line 312) or to the TypeError of line 289
ContinueExtraction(q, from) ==
    LET n == NextExport(q, from)
    IN IF n = 0
       THEN pc' = "waitHost" /\ xpos' = Len(q) + 1 /\ uncaught' = uncaught
       ELSE IF q[n].v.kind = "null"
       THEN pc' = "aborted" /\ xpos' = n /\ uncaught' = "TypeError"
       ELSE pc' = "compile" /\ xpos' = n /\ uncaught' = uncaught

\* a loop that imports the entry module without importing the manifest
ContinueLoopWithoutManifest(cp, from, js) ==
    LET n == NextPath(cp, from)
    IN IF n # 0
       THEN /\ pc' = "import"
            /\ idx' = n
            /\ widgetCounter' = widgetCounter + 1
            /\ loadingAlert' = Alert("open", "Loading widgets")
            /\ xpos' = xpos
            /\ uncaught' = uncaught
       ELSE /\ idx' = Len(cp) + 1
            /\ widgetCounter' = widgetCounter
            /\ loadingAlert' = Alert("open", "Still Working")
            /\ ContinueExtraction(Flatten(js), 1)

\* lines 252-282, from position `from` of the identifiers cp, up to the next await
ContinueLoop(cp, from, js) ==
    LET n == NextPath(cp, from)
    IN IF n # 0
       THEN /\ pc' = "manifest"
            /\ idx' = n
            /\ widgetCounter' = widgetCounter + 1
            /\ loadingAlert' = Alert("open", "Loading widgets")
            /\ xpos' = xpos
            /\ uncaught' = uncaught
       ELSE /\ idx' = Len(cp) + 1
            /\ widgetCounter' = widgetCounter
            /\ loadingAlert' = Alert("open", "Still Working")
            /\ ContinueExtraction(Flatten(js), 1)

\* ngDoBootstrap calls loadRuntimeWidgets(); it suspends at line 228
LoadRuntimeWidgets ==
    /\ pc = "idle"
    /\ pc' = "waitUser"
    /\ UNCHANGED <<isLoaded, widgetFactories, store, appList, app, AppRuntimePath,
                   contextPaths, idx, widgetCounter, jsModules,
                   cleanupWidgetContextPath, xpos, ngModules, attempts, loadingAlert,
                   alerts, console, uncaught, updates, hostState, components>>
    /\ UNCHANGED pageVars

\* lines 228-232: a user is logged in
UserLoggedIn ==
    /\ pc = "waitUser"
    /\ pc' = "fetchApps"
    /\ loadingAlert' = Alert("open", "Loading")
    /\ UNCHANGED <<isLoaded, widgetFactories, store, appList, app, AppRuntimePath,
                   contextPaths, idx, widgetCounter, jsModules,
                   cleanupWidgetContextPath, xpos, ngModules, attempts,
                   alerts, console, uncaught, updates, hostState, components>>
    /\ UNCHANGED pageVars

\* lines 232-242: the application list arrives
AppsFetched ==
    /\ pc = "fetchApps"
    /\ \E al \in AppLists :
         /\ appList' = al
         /\ app' = FindApp(al)
         /\ IF FindApp(al) = Undefined
            THEN pc' = "aborted" /\ uncaught' = "Could not find current application."
            ELSE pc' = "listContexts" /\ uncaught' = uncaught
    /\ UNCHANGED <<isLoaded, widgetFactories, store, AppRuntimePath,
                   contextPaths, idx, widgetCounter, jsModules,
                   cleanupWidgetContextPath, xpos, ngModules, attempts, loadingAlert,
                   alerts, console, updates, hostState, components>>
    /\ UNCHANGED pageVars

\* lines 242-259: the runtime context records arrive
ContextsListed ==
    /\ pc = "listContexts"
    /\ LET rp == FindRuntimePath(store, app)
           cp == UnionOfPaths(app, rp)
       IN /\ AppRuntimePath' = rp
          /\ contextPaths' = cp
          /\ ContinueLoop(cp, 1, jsModules)
    /\ UNCHANGED <<isLoaded, widgetFactories, store, appList, app, jsModules,
                   cleanupWidgetContextPath, ngModules, attempts,
                   alerts, console, updates, hostState, components>>
    /\ UNCHANGED pageVars

\* a loader that takes every failing identifier for a deleted one
KnownNever(al, contextPath) == FALSE

\* line 261: appList.some(app => app.contextPath === contextPath)
Known(al, contextPath) == \E i \in 1..Len(al) : al[i].contextPath = contextPath

\* lines 259-267: corsImport of the manifest settles
ManifestImported ==
    /\ pc = "manifest"
    /\ \E ok \in BOOLEAN :
         LET contextPath == contextPaths[idx]
         IN IF ok
            THEN /\ pc' = "import"
                 /\ UNCHANGED <<idx, widgetCounter, loadingAlert, xpos, uncaught,
                                console, cleanupWidgetContextPath, attempts>>
            ELSE /\ IF Known(appList, contextPath)
                    THEN /\ console' = Append(console, LogEntry("manifest", contextPath, 0, 0))
                         /\ UNCHANGED cleanupWidgetContextPath
                    ELSE /\ cleanupWidgetContextPath' =
                                Append(cleanupWidgetContextPath, contextPath)
                         /\ UNCHANGED console
                 /\ attempts' = MapSet(attempts, contextPath, "manifestFailed")
                 /\ ContinueLoop(contextPaths, idx + 1, jsModules)
    /\ UNCHANGED <<isLoaded, widgetFactories, store, appList, app, AppRuntimePath,
                   contextPaths, jsModules, ngModules, alerts, updates, hostState,
                   components>>
    /\ UNCHANGED pageVars

\* lines 270-278: the import of the entry module settles
EntryModuleImported ==
    /\ pc = "import"
    /\ LET contextPath == contextPaths[idx]
       IN \/ \E exports \in ExportsOf(contextPath) :
               LET js == Append(jsModules,
                                [contextPath |-> contextPath, exports |-> exports])
               IN /\ jsModules' = js
                  /\ attempts' = MapSet(attempts, contextPath, "imported")
                  /\ ContinueLoop(contextPaths, idx + 1, js)
                  /\ UNCHANGED <<console, alerts>>
          \/ /\ console' = Append(console, LogEntry("import", contextPath, 0, 0))
             /\ alerts' = Append(alerts, LogEntry("import", contextPath, 0, 0))
             /\ attempts' = MapSet(attempts, contextPath, "importFailed")
             /\ ContinueLoop(contextPaths, idx + 1, jsModules)
             /\ UNCHANGED jsModules
    /\ UNCHANGED <<isLoaded, widgetFactories, store, appList, app, AppRuntimePath,
                   contextPaths, cleanupWidgetContextPath, ngModules, updates,
                   hostState, components>>
    /\ UNCHANGED pageVars

\* lines 292-300: compileModuleAsync and create settle
ModuleCompiled ==
    /\ pc = "compile"
    /\ LET q == Flatten(jsModules)
           e == q[xpos]
       IN /\ \/ /\ ngModules' = Append(ngModules,
                                       [b |-> e.b, k |-> e.k, hooks |-> e.v.hooks])
                /\ UNCHANGED <<console, alerts>>
             \/ /\ console' = Append(console, LogEntry("compile", e.b, e.k, 0))
                /\ alerts' = Append(alerts, LogEntry("compile", e.b, e.k, 0))
                /\ UNCHANGED ngModules
          /\ ContinueExtraction(q, xpos + 1)
    /\ UNCHANGED <<isLoaded, widgetFactories, store, appList, app, AppRuntimePath,
                   contextPaths, idx, widgetCounter, jsModules,
                   cleanupWidgetContextPath, attempts, loadingAlert, updates,
                   hostState, components>>
    /\ UNCHANGED pageVars

\* a loader that does not wait for the host registry
StateReadyAlways(state) == TRUE

\* line 312: filter(state => state.size > 0)
StateReady(state) == state # <<>>

\* lines 312-352: the host registry holds an entry; register, flip, clean up
WidgetsRegistered ==
    /\ pc = "waitHost"
    /\ StateReady(hostState)
    /\ LET st == loadModules([wf |-> widgetFactories, hs |-> hostState,
                              comps |-> components, alerts |-> alerts,
                              console |-> console],
                             ngModules, Len(ngModules), isLoaded)
           rp == Cleanup(AppRuntimePath, cleanupWidgetContextPath,
                         Len(cleanupWidgetContextPath))
       IN /\ widgetFactories' = st.wf
          /\ hostState' = st.hs
          /\ alerts' = st.alerts
          /\ console' = st.console
          /\ loadingAlert' = Alert("closed", "")
          /\ isLoaded' = isLoadedNext(isLoaded)
          /\ components' = IF isLoadedNext(isLoaded)
                           THEN {isLoadedEmission(c, st.hs, st.wf) : c \in st.comps}
                           ELSE st.comps
          /\ AppRuntimePath' = rp
          /\ IF rp # AppRuntimePath
             THEN /\ updates' = Append(updates, [id |-> rp.id,
                                  widgetContextPaths |-> rp.widgetContextPaths])
                  /\ pc' = "update"
             ELSE /\ updates' = updates
                  /\ pc' = "done"
    /\ UNCHANGED <<store, appList, app, contextPaths, idx, widgetCounter, jsModules,
                   cleanupWidgetContextPath, xpos, ngModules, attempts, uncaught>>
    /\ UNCHANGED pageVars

\* lines 348-352: the inventory applied the update
ContextUpdated ==
    /\ pc = "update"
    /\ store' = StoreUpdate(store, updates[Len(updates)])
    /\ pc' = "done"
    /\ UNCHANGED <<isLoaded, widgetFactories, appList, app, AppRuntimePath,
                   contextPaths, idx, widgetCounter, jsModules,
                   cleanupWidgetContextPath, xpos, ngModules, attempts, loadingAlert,
                   alerts, console, uncaught, updates, hostState, components>>
    /\ UNCHANGED pageVars

----------------------------------------------------------------------------
(* The host *)

\* the statically loaded widgets enter the registry, all in one cycle
HostBootstrapped ==
    /\ hostState = <<>>
    /\ hostState' = BuiltIns
    /\ components' = {ngOnChangesEmission(c, BuiltIns, widgetFactories, isLoaded) :
                        c \in components}
    /\ UNCHANGED <<isLoaded, store>>
    /\ UNCHANGED loaderVars
    /\ UNCHANGED pageVars

\* was loadRuntimeWidgets not yet called when the request was made?
Phase == IF pc = "idle" THEN "beforeLoad" ELSE "later"

\* lines 207-223: a component instance is asked to render componentId
ngOnChanges ==
    /\ Cardinality(components) < MaxComponents
    /\ \E r \in Requests :
         components' = components \cup
            {ngOnChangesEmission(NewComponent(r[1], r[2], Phase), hostState,
                                 widgetFactories, isLoaded)}
    /\ UNCHANGED <<isLoaded, store, hostState>>
    /\ UNCHANGED loaderVars
    /\ UNCHANGED pageVars

Next ==
    \/ LoadRuntimeWidgets
    \/ UserLoggedIn
    \/ AppsFetched
    \/ ContextsListed
    \/ ManifestImported
    \/ EntryModuleImported
    \/ ModuleCompiled
    \/ WidgetsRegistered
    \/ ContextUpdated
    \/ HostBootstrapped
    \/ ngOnChanges

Spec == Init /\ [][Next]_vars

----------------------------------------------------------------------------
(* RuntimeWidgetInstallerModalComponent and RuntimeWidgetInstallerService, *)
(* one action per resumption                                               *)

\* installer lines 60-66 and 91-97: the privately-owned application first
FindAppByPath(al, contextPath) ==
    LET own == FirstIndex({i \in 1..Len(al) : al[i].contextPath = contextPath
                                              /\ al[i].availability = "PRIVATE"})
        any == FirstIndex({i \in 1..Len(al) : al[i].contextPath = contextPath})
    IN IF own # 0 THEN al[own] ELSE IF any # 0 THEN al[any] ELSE Undefined

\* the ids the inventory gives to the managed objects it creates
ManagedObjectIds == <<"r1", "r2", "r3", "r4">>

\* invService.update (installer lines 162-166) or invService.create (168-173)
\* as the inventory applies it
Apply(st, request) ==
    IF request.kind = "update"
    THEN StoreUpdate(st, request)
    ELSE Append(st, RuntimeContext(ManagedObjectIds[Len(st) + 1], request.appId,
                                   request.widgetContextPaths))

\* modal lines 55-60: the callback replaces the current alert; the default
\* callback of installWidgetWithContext does nothing
onUpdate(m, entry, msg) ==
    IF entry = "installWidget" THEN [m EXCEPT !.current = msg] ELSE m

\* modal lines 63-64 (the awaited promise is fulfilled) and 71-74 (rejected)
uploadSettled(m, fulfilled) ==
    IF fulfilled
    THEN [m EXCEPT !.pc = "added", !.current = "",
                   !.result = "Widget Added! Refreshing..."]
    ELSE [m EXCEPT !.pc = "idle", !.busy = FALSE, !.result = "Failed to add widget!"]

\* what the settling of the service's promise does to the modal that awaits it
Awaiting(entry, m, fulfilled) ==
    IF entry = "installWidget" THEN uploadSettled(m, fulfilled) ELSE m

\* installWidget / installWidgetWithContext throws
Rejected(ins, error) ==
    [ins EXCEPT !.pc = "idle", !.result = "rejected", !.error = error]

\* an await of widgetInstallaitonProcess throws. installWidgetWithContext
\* awaits the process (line 100) and is rejected with it; installWidget does
\* not (line 69): it has returned, and the rejection is handled by nobody
ProcessFailed(ins, error) ==
    IF ins.entry = "installWidget"
    THEN [ins EXCEPT !.pc = "idle", !.process = "failed", !.error = error]
    ELSE [ins EXCEPT !.pc = "idle", !.process = "failed", !.result = "rejected",
                     !.error = error]

\* widgetInstallaitonProcess returns (line 175)
ProcessCompleted(ins) ==
    IF ins.entry = "installWidget"
    THEN [ins EXCEPT !.pc = "idle", !.process = "completed"]
    ELSE [ins EXCEPT !.pc = "idle", !.process = "completed", !.result = "resolved"]

\* modal lines 34-54 and installer lines 49-59: the user presses Upload
upload ==
    /\ modal.pc = "idle"
    /\ install.pc = "idle"
    /\ \E widgetFile \in Files \cup {NoFile}, isDevMode \in BOOLEAN :
         IF widgetFile = NoFile
         THEN /\ modal' = [modal EXCEPT !.result = "No widget file selected"]
              /\ UNCHANGED install
         ELSE IF widgetFile.name = "my w.zip"
         THEN /\ modal' = [modal EXCEPT
                              !.result = "Widget File name cannot contain SPACE"]
              /\ UNCHANGED install
         ELSE LET m == [modal EXCEPT !.busy = TRUE, !.current = "Uploading widget...",
                                     !.result = ""]
                  ins == [InstallIdle EXCEPT !.entry = "installWidget",
                                             !.contextPath = CurrentPath,
                                             !.file = widgetFile]
              IN IF isDevMode
                 THEN /\ modal' = uploadSettled(m, FALSE)
                      /\ install' = Rejected(ins, "Development Mode")
                 ELSE /\ modal' = [m EXCEPT !.pc = "installing"]
                      /\ install' = [ins EXCEPT !.pc = "listApps", !.result = "pending"]
    /\ UNCHANGED <<isLoaded, store, hostState, components, remove>>
    /\ UNCHANGED <<loaderVars, installOther>>

\* installer lines 79-90: some caller installs a widget into the application
installWidgetWithContext ==
    /\ install.pc = "idle"
    /\ \E widgetFile \in {f \in Files : f.name = "w.zip"}, isDevMode \in BOOLEAN :
         LET ins == [InstallIdle EXCEPT !.entry = "installWidgetWithContext",
                                        !.contextPath = CurrentPath,
                                        !.file = widgetFile]
         IN install' = IF isDevMode
                       THEN Rejected(ins, "Development Mode")
                       ELSE [ins EXCEPT !.pc = "listApps", !.result = "pending"]
    /\ UNCHANGED <<isLoaded, store, hostState, components, modal, remove>>
    /\ UNCHANGED <<loaderVars, installOther>>

\* installer lines 59-69 and 90-100: appService.list settles; the process is
\* started and runs up to its first await (line 110)
ApplicationsListed ==
    /\ install.pc = "listApps"
    /\ \/ \E al \in AppLists :
            LET a == FindAppByPath(al, install.contextPath)
                ins == [install EXCEPT !.pc = "zip", !.appList = al, !.app = a,
                                       !.process = "running"]
            IN IF a = Undefined
               THEN /\ install' = Rejected(install, "Could not find current application.")
                    /\ modal' = Awaiting(install.entry, modal, FALSE)
               ELSE IF install.entry = "installWidget"
               THEN /\ install' = [ins EXCEPT !.result = "resolved"]
                    /\ modal' = Awaiting(install.entry, modal, TRUE)
               ELSE /\ install' = ins
                    /\ modal' = modal
       \/ /\ install' = Rejected(install, "appService.list")
          /\ modal' = Awaiting(install.entry, modal, FALSE)
    /\ UNCHANGED <<isLoaded, store, hostState, components, remove>>
    /\ UNCHANGED <<loaderVars, installOther>>

\* installer lines 110-126: the zip file and its cumulocity.json are read
WidgetFileRead ==
    /\ install.pc = "zip"
    /\ IF install.file.kind # "widget"
       THEN /\ install' = ProcessFailed(install, "Not a valid widget")
            /\ modal' = modal
       ELSE IF Known(install.appList, install.file.contextPath)
       THEN /\ install' = [install EXCEPT !.pc = "listContexts"]
            /\ modal' = onUpdate(modal, install.entry, "Widget already deployed!")
       ELSE /\ install' = [install EXCEPT !.pc = "create"]
            /\ modal' = modal
    /\ UNCHANGED <<isLoaded, store, hostState, components, remove>>
    /\ UNCHANGED <<loaderVars, installOther>>

\* installer lines 126-140: appService.create, the upload of the binary and
\* appService.update settle in turn
WidgetDeployed ==
    /\ install.pc \in {"create", "binary", "updateApp"}
    /\ \/ /\ install.pc = "create"
          /\ install' = [install EXCEPT !.pc = "binary"]
          /\ modal' = modal
       \/ /\ install.pc = "binary"
          /\ install' = [install EXCEPT !.pc = "updateApp"]
          /\ modal' = modal
       \/ /\ install.pc = "updateApp"
          /\ install' = [install EXCEPT !.pc = "listContexts"]
          /\ modal' = onUpdate(modal, install.entry, "Widget deployed!")
       \/ /\ install' = ProcessFailed(install, "deploy")
          /\ modal' = modal
    /\ UNCHANGED <<isLoaded, store, hostState, components, remove>>
    /\ UNCHANGED <<loaderVars, installOther>>

\* installer lines 149-159: the list to store
WithContextPath(AppRuntimePathRead, contextPath) ==
    IF AppRuntimePathRead # Undefined
    THEN Dedup(Append(AppRuntimePathRead.widgetContextPaths, contextPath))
    ELSE <<contextPath>>

\* installer lines 146-168: invService.list settles
RuntimeContextsListed ==
    /\ install.pc = "listContexts"
    /\ \/ LET rp == FindRuntimePath(store, install.app)
              widgetContextPaths == WithContextPath(rp, install.file.contextPath)
          IN install' =
                [install EXCEPT
                    !.pc = "write",
                    !.read = rp,
                    !.request =
                       IF rp # Undefined
                       THEN [kind |-> "update", id |-> rp.id,
                             widgetContextPaths |-> widgetContextPaths]
                       ELSE [kind |-> "create", appId |-> install.app.id,
                             widgetContextPaths |-> widgetContextPaths]]
       \/ install' = ProcessFailed(install, "invService.list")
    /\ UNCHANGED <<isLoaded, store, hostState, components, modal, remove>>
    /\ UNCHANGED <<loaderVars, installOther>>

\* installer lines 162-175: invService.update or invService.create settles
RuntimeContextStored ==
    /\ install.pc = "write"
    /\ \/ /\ store' = Apply(store, install.request)
          /\ install' = ProcessCompleted(install)
       \/ /\ store' = store
          /\ install' = ProcessFailed(install, "invService.update")
    /\ UNCHANGED <<isLoaded, hostState, components, modal, remove>>
    /\ UNCHANGED <<loaderVars, installOther>>

----------------------------------------------------------------------------
(* removeWidgetFromApp, one action per resumption *)

AppIds == {PrivateApp.id, SubscribedApp.id}

\* line 380: the records the query selects
RECURSIVE RuntimePathsOf(_, _)
RuntimePathsOf(st, appId) ==
    IF st = <<>> THEN <<>>
    ELSE LET rest == RuntimePathsOf(SubSeq(st, 1, Len(st) - 1), appId)
         IN IF st[Len(st)].appId = appId THEN Append(rest, st[Len(st)]) ELSE rest

\* line 379: some caller removes a widget from an application
removeWidgetFromApp ==
    /\ remove.pc = "idle"
    /\ \E appId \in AppIds, contextPath \in BundleIds :
         remove' = [RemoveIdle EXCEPT !.pc = "list", !.appId = appId,
                                      !.contextPath = contextPath]
    /\ UNCHANGED <<isLoaded, store, hostState, components, modal, install>>
    /\ UNCHANGED <<loaderVars, installOther>>

\* lines 380-392: invService.list settles
RemoveListed ==
    /\ remove.pc = "list"
    /\ \/ LET AppRuntimePaths == RuntimePathsOf(store, remove.appId)
          IN IF AppRuntimePaths = <<>>
             THEN remove' = [remove EXCEPT !.pc = "idle", !.outcome = "noRecord"]
             ELSE LET appRuntimePath == AppRuntimePaths[1]
                      contextPathIndex ==
                         FirstIndex({i \in 1..Len(appRuntimePath.widgetContextPaths) :
                            appRuntimePath.widgetContextPaths[i] = remove.contextPath})
                  IN IF contextPathIndex = 0
                     THEN remove' = [remove EXCEPT !.pc = "idle", !.read = appRuntimePath,
                                                   !.outcome = "absent"]
                     ELSE remove' =
                             [remove EXCEPT
                                 !.pc = "update",
                                 !.read = appRuntimePath,
                                 !.request =
                                    [kind |-> "update", id |-> appRuntimePath.id,
                                     widgetContextPaths |->
                                        RemoveAt(appRuntimePath.widgetContextPaths,
                                                 contextPathIndex)]]
       \/ remove' = [remove EXCEPT !.pc = "idle", !.outcome = "rejected"]
    /\ UNCHANGED <<isLoaded, store, hostState, components, modal, install>>
    /\ UNCHANGED <<loaderVars, installOther>>

\* lines 389-393: invService.update settles
RemoveStored ==
    /\ remove.pc = "update"
    /\ \/ /\ store' = Apply(store, remove.request)
          /\ remove' = [remove EXCEPT !.pc = "idle", !.outcome = "updated"]
       \/ /\ store' = store
          /\ remove' = [remove EXCEPT !.pc = "idle", !.outcome = "rejected"]
    /\ UNCHANGED <<isLoaded, hostState, components, modal, install>>
    /\ UNCHANGED <<loaderVars, installOther>>

----------------------------------------------------------------------------
(* The page *)

\* is a call of the loader, of the installer or of removeWidgetFromApp
\* under way?
InFlight ==
    \/ pc \notin {"idle", "done", "aborted"}
    \/ install.pc # "idle"
    \/ remove.pc # "idle"
    \/ installOther.pc # "idle"

\* modal lines 67-70 (location.reload() five seconds after the success
\* message), or the user reloads the page: every object of the page is built
\* anew; the inventory keeps what it holds.
Reload ==
    /\ ~InFlight
    /\ pc' = "idle"
    /\ isLoaded' = isLoadedInitially
    /\ widgetFactories' = <<>>
    /\ appList' = <<>>
    /\ app' = Undefined
    /\ AppRuntimePath' = Undefined
    /\ contextPaths' = <<>>
    /\ idx' = 0
    /\ widgetCounter' = 0
    /\ jsModules' = <<>>
    /\ cleanupWidgetContextPath' = <<>>
    /\ xpos' = 0
    /\ ngModules' = <<>>
    /\ attempts' = <<>>
    /\ loadingAlert' = Alert("none", "")
    /\ alerts' = <<>>
    /\ console' = <<>>
    /\ uncaught' = ""
    /\ updates' = <<>>
    /\ hostState' = <<>>
    /\ components' = {}
    /\ modal' = ModalIdle
    /\ install' = InstallIdle
    /\ remove' = RemoveIdle
    /\ installOther' = OtherIdle
    /\ UNCHANGED store

\* nothing of the installer or of removeWidgetFromApp has run in this page
PageQuiet ==
    /\ modal = ModalIdle /\ install = InstallIdle /\ remove = RemoveIdle
    /\ installOther = OtherIdle

\* The inventory is the only thing the loader, the installer and
\* removeWidgetFromApp share. StoreSpec is the program restricted to
\* sequences of completed operations: a page runs its loader, or one upload,
\* or one installWidgetWithContext, or one removeWidgetFromApp, to the end,
\* and is then reloaded; the next page works on what the inventory holds.
BootstrapQuietPage == PageQuiet /\ LoadRuntimeWidgets
UploadInQuietPage == pc = "idle" /\ PageQuiet /\ upload
InstallInQuietPage == pc = "idle" /\ PageQuiet /\ installWidgetWithContext
RemoveInQuietPage == pc = "idle" /\ PageQuiet /\ removeWidgetFromApp

StoreNext ==
    \/ BootstrapQuietPage
    \/ UserLoggedIn
    \/ AppsFetched
    \/ ContextsListed
    \/ ManifestImported
    \/ EntryModuleImported
    \/ ModuleCompiled
    \/ WidgetsRegistered
    \/ ContextUpdated
    \/ HostBootstrapped
    \/ UploadInQuietPage
    \/ InstallInQuietPage
    \/ ApplicationsListed
    \/ WidgetFileRead
    \/ WidgetDeployed
    \/ RuntimeContextsListed
    \/ RuntimeContextStored
    \/ RemoveInQuietPage
    \/ RemoveListed
    \/ RemoveStored
    \/ Reload

StoreSpec == Init /\ [][StoreNext]_vars

----------------------------------------------------------------------------
(* Overlapping calls *)

\* The installer service is a singleton that does not keep callers from
\* overlapping, and other sessions work on the same inventory. installOther is
\* a second call of installWidgetWithContext, taken up where it has found its
\* application and deployed its widget (installer lines 79-145, which touch
\* nothing the other calls read) and is about to list the runtime contexts.
OverlappingInstall ==
    /\ installOther = OtherIdle
    /\ \E a \in {PrivateApp, SubscribedApp}, contextPath \in BundleIds :
         installOther' = [OtherIdle EXCEPT !.pc = "listContexts", !.app = a,
                                           !.contextPath = contextPath,
                                           !.process = "running"]
    /\ UNCHANGED <<isLoaded, store, hostState, components, modal, install, remove>>
    /\ UNCHANGED loaderVars

\* installer lines 146-168 of the overlapping call: invService.list settles
OverlappingContextsListed ==
    /\ installOther.pc = "listContexts"
    /\ \/ LET rp == FindRuntimePath(store, installOther.app)
              widgetContextPaths == WithContextPath(rp, installOther.contextPath)
          IN installOther' =
                [installOther EXCEPT
                    !.pc = "write",
                    !.read = rp,
                    !.request =
                       IF rp # Undefined
                       THEN [kind |-> "update", id |-> rp.id,
                             widgetContextPaths |-> widgetContextPaths]
                       ELSE [kind |-> "create", appId |-> installOther.app.id,
                             widgetContextPaths |-> widgetContextPaths]]
       \/ installOther' = [installOther EXCEPT !.pc = "idle", !.process = "failed"]
    /\ UNCHANGED <<isLoaded, store, hostState, components, modal, install, remove>>
    /\ UNCHANGED loaderVars

\* installer lines 162-175 of the overlapping call: invService.update or
\* invService.create settles
OverlappingContextStored ==
    /\ installOther.pc = "write"
    /\ \/ /\ store' = Apply(store, installOther.request)
          /\ installOther' = [installOther EXCEPT !.pc = "idle",
                                                  !.process = "completed"]
       \/ /\ store' = store
          /\ installOther' = [installOther EXCEPT !.pc = "idle", !.process = "failed"]
    /\ UNCHANGED <<isLoaded, hostState, components, modal, install, remove>>
    /\ UNCHANGED loaderVars

\* RaceSpec is the program with writers of the inventory that overlap: in a
\* page either the loader runs or a call of installWidgetWithContext is made,
\* and the overlapping call takes its steps at any time in between.
BootstrapNoInstall == install = InstallIdle /\ LoadRuntimeWidgets
InstallNoBootstrap == pc = "idle" /\ installWidgetWithContext

RaceNext ==
    \/ BootstrapNoInstall
    \/ UserLoggedIn
    \/ AppsFetched
    \/ ContextsListed
    \/ ManifestImported
    \/ EntryModuleImported
    \/ ModuleCompiled
    \/ WidgetsRegistered
    \/ ContextUpdated
    \/ HostBootstrapped
    \/ InstallNoBootstrap
    \/ ApplicationsListed
    \/ WidgetFileRead
    \/ WidgetDeployed
    \/ RuntimeContextsListed
    \/ RuntimeContextStored
    \/ OverlappingInstall
    \/ OverlappingContextsListed
    \/ OverlappingContextStored

RaceSpec == Init /\ [][RaceNext]_vars

----------------------------------------------------------------------------
(* Properties *)

SeqCount(s, x) == Cardinality({i \in 1..Len(s) : s[i] = x})

\* the loader has passed line 332
RegistrationDone == pc \in {"update", "done"}

\* every definition the activated modules offer, in registration order
RECURSIVE Registrations(_)
Registrations(mods) ==
    IF mods = <<>> THEN <<>>
    ELSE LET m == mods[Len(mods)]
             ds == Widgets(m.hooks)
         IN Registrations(SubSeq(mods, 1, Len(mods) - 1))
            \o [w \in 1..Len(ds) |-> [b |-> m.b, k |-> m.k, w |-> w, d |-> ds[w]]]

\* the modules among the imported exports whose activation did not fail
ActivatedExports ==
    LET q == Flatten(jsModules)
    IN {q[i] : i \in {j \in 1..Len(q) :
                        /\ q[j].v.kind = "module"
                        /\ LogEntry("compile", q[j].b, q[j].k, 0) \notin SeqToSet(console)}}

\* C1: whatever the identifiers and whichever of them fail, loadRuntimeWidgets
\* is not aborted once it has started on the identifiers, and when it has
\* passed the registration every constructible definition of every module
\* that was imported and activated has an entry in widgetFactories.
C1_FailingIdentifierNeverAborts ==
    /\ pc = "aborted" => attempts = <<>>
    /\ RegistrationDone =>
         \A e \in ActivatedExports :
            \A d \in SeqToSet(Widgets(e.v.hooks)) :
               Constructible(d) => d.id \in DOMAIN widgetFactories

\* C2: a component whose id the host registry does not resolve to a built-in
\* definition is not handed to loadComponent while isLoaded$ is false: any
\* component dispatched while it was false was dispatched for a built-in one.
C2_NoDispatchBeforeLoaded ==
    \A c \in components :
       (c.state # "Waiting" /\ ~c.loaded) => c.via = "host"

\* a request for an unresolved id is on hold while the batch is under way
C2_Witness ==
    /\ pc = "waitHost"
    /\ hostState # <<>>
    /\ \E c \in components :
          c.state = "Waiting" /\ Unrecognised(GetById(hostState, c.componentId))

\* C3: once the batch has finished, every render request for an id that the
\* batch registered, whenever it was issued, is Resolved with the component
\* factory and the injector of the id's entry in widgetFactories.
C3_PendingRequestResolves ==
    isLoaded =>
       \A c \in components :
          (c.mode = "component" /\ c.componentId \in DOMAIN widgetFactories) =>
             /\ c.state = "Resolved"
             /\ c.via = "runtime"
             /\ c.factory = widgetFactories[c.componentId].componentFactory
             /\ c.injector = widgetFactories[c.componentId].injector

\* a request made before loadRuntimeWidgets was called got the runtime factory
C3_Witness ==
    /\ pc = "done"
    /\ \E c \in components :
          /\ c.issued = "beforeLoad"
          /\ c.mode = "component"
          /\ c.state = "Resolved"
          /\ c.via = "runtime"
          /\ c.factory.part = "component"

\* C4 as first stated: isLoaded$ makes its one change from false to true in
\* every process, so it is true once loadRuntimeWidgets has ended.
C4_ExactlyOnce == pc \in {"done", "aborted"} => isLoaded

\* C4: isLoaded$ starts false, never goes from true to false, changes to true
\* only in the step that ends the registration, and is true in every state
\* after that step; a run that is aborted before leaves it false.
C4_AtMostOnce ==
    /\ ~isLoaded
    /\ [][/\ isLoaded => isLoaded'
          /\ (~isLoaded /\ isLoaded') => (pc = "waitHost" /\ pc' \in {"update", "done"})]_vars
    /\ [](RegistrationDone <=> isLoaded)

\* the flip has happened
C4_Witness == isLoaded /\ pc = "done"

\* C5: a component dispatched through the isRuntimeLoaded branch finds an
\* entry for its id in widgetFactories, and every runtime-sourced definition
\* of the host registry has one.
C5_RuntimeBranchFindsEntry ==
    /\ \A c \in components :
          c.via = "runtime" =>
             c.componentId \in DOMAIN widgetFactories /\ c.error # "noEntry"
    /\ \A i \in 1..Len(hostState) :
          hostState[i].isRuntimeLoaded => hostState[i].id \in DOMAIN widgetFactories

\* the isRuntimeLoaded branch was taken and built a component
C5_Witness ==
    \E c \in components :
       c.via = "runtime" /\ c.state = "Resolved" /\ c.factory # NoFactory

\* the identifier list the inventory holds for the current application
PersistedPaths(st) ==
    LET rp == FindRuntimePath(st, app)
    IN IF rp = Undefined THEN <<>> ELSE rp.widgetContextPaths

KnownApplication(b) == b \in {appList[i].contextPath : i \in 1..Len(appList)}

FailedToImport(b) ==
    b \in DOMAIN attempts /\ attempts[b] \in {"manifestFailed", "importFailed"}

\* the list s without the members of M, order kept
RECURSIVE Without(_, _)
Without(s, M) ==
    IF s = <<>> THEN <<>>
    ELSE LET r == Without(SubSeq(s, 1, Len(s) - 1), M)
         IN IF s[Len(s)] \in M THEN r ELSE Append(r, s[Len(s)])

GoodRegistrations(R, id) ==
    {i \in 1..Len(R) : R[i].d.id = id /\ R[i].d.component = "ok"
                       /\ R[i].d.configComponent # "bad"}

Latest(I) == CHOOSE i \in I : \A j \in I : j <= i

\* C7: after the registration, widgetFactories holds exactly one entry for
\* each id that was registered, and it holds the factories and the injector
\* of the last definition registered under that id.
C7_LastWriteWins ==
    RegistrationDone =>
       LET R == Registrations(ngModules)
       IN /\ DOMAIN widgetFactories =
                {R[i].d.id : i \in {j \in 1..Len(R) : GoodRegistrations(R, R[j].d.id) # {}}}
          /\ \A id \in DOMAIN widgetFactories :
                LET r == R[Latest(GoodRegistrations(R, id))]
                IN /\ widgetFactories[id].componentFactory = Factory(r.b, r.k, r.w, "component")
                   /\ widgetFactories[id].configComponentFactory =
                         (IF r.d.configComponent = "ok"
                          THEN Factory(r.b, r.k, r.w, "config") ELSE NoFactory)
                   /\ widgetFactories[id].injector = ModuleInjector(r.b, r.k)

\* two definitions with the same id were registered
C7_Witness ==
    /\ pc = "done"
    /\ \E id \in DOMAIN widgetFactories :
          Cardinality(GoodRegistrations(Registrations(ngModules), id)) >= 2

\* the user is told that the current application was not found
ApplicationNotFoundSurfaced ==
    \/ \E i \in 1..Len(alerts) : alerts[i].what = "application"
    \/ loadingAlert.text = "Could not find current application."

\* C8: when no application matches the current path the run is aborted before
\* anything is imported, registered or stored, isLoaded$ stays false, and the
\* failure is surfaced to the user.
C8_ApplicationNotFoundIsSurfaced ==
    uncaught = "Could not find current application." =>
       /\ pc = "aborted"
       /\ attempts = <<>>
       /\ jsModules = <<>>
       /\ widgetFactories = <<>>
       /\ updates = <<>>
       /\ ~isLoaded
       /\ ApplicationNotFoundSurfaced

\* the modules whose activation failed so far
FailedActivations ==
    LET q == Flatten(jsModules)
    IN {q[i] : i \in {j \in 1..Len(q) :
                        /\ q[j].v.kind = "module"
                        /\ (j < xpos \/ pc \in {"waitHost", "update", "done"})
                        /\ \A n \in 1..Len(ngModules) :
                              ~(ngModules[n].b = q[j].b /\ ngModules[n].k = q[j].k)}}

LoggedAndSurfacedOnce(entry) ==
    SeqCount(console, entry) = 1 /\ SeqCount(alerts, entry) = 1

\* C9: every failure of an identifier (its manifest import, its entry-module
\* import, the activation of one of its modules) has exactly one console
\* entry and exactly one alert.
C9_EveryFailureLoggedAndSurfacedOnce ==
    /\ \A b \in DOMAIN attempts :
          /\ attempts[b] = "manifestFailed" =>
                LoggedAndSurfacedOnce(LogEntry("manifest", b, 0, 0))
          /\ attempts[b] = "importFailed" =>
                LoggedAndSurfacedOnce(LogEntry("import", b, 0, 0))
    /\ \A e \in FailedActivations :
          LoggedAndSurfacedOnce(LogEntry("compile", e.b, e.k, 0))

\* C10: a definition whose factories cannot be built is logged and alerted
\* once, gets no entry in widgetFactories and is not added to the host
\* registry; every other definition of the batch is registered and added,
\* the step that registers always completes, and isLoaded$ is true after it.
C10_FactoryFailureIsolated ==
    /\ [][pc = "waitHost" => pc' \in {"waitHost", "update", "done"}]_vars
    /\ [](RegistrationDone =>
            /\ isLoaded
            /\ LET R == Registrations(ngModules)
               IN \A i \in 1..Len(R) :
                     LET r == R[i]
                         definition == HostDefinition(r.d.id, TRUE, r.b, r.k, r.w)
                     IN IF r.d.component = "ok" /\ r.d.configComponent # "bad"
                        THEN /\ definition \in SeqToSet(hostState)
                             /\ r.d.id \in DOMAIN widgetFactories
                        ELSE /\ LoggedAndSurfacedOnce(LogEntry("widget", r.b, r.k, r.w))
                             /\ definition \notin SeqToSet(hostState)
                             /\ r.d.id \in DOMAIN widgetFactories =>
                                   widgetFactories[r.d.id].injector # ModuleInjector(r.b, r.k)
                                   \/ widgetFactories[r.d.id].componentFactory.w # r.w)

\* a definition failed and a later definition of the batch was registered
C10_Witness ==
    /\ pc = "done"
    /\ LET R == Registrations(ngModules)
       IN \E i, j \in 1..Len(R) :
             /\ i < j
             /\ ~Constructible(R[i].d)
             /\ Constructible(R[j].d)
             /\ HostDefinition(R[j].d.id, TRUE, R[j].b, R[j].k, R[j].w) \in SeqToSet(hostState)
             /\ LogEntry("widget", R[i].b, R[i].k, R[i].w) \in SeqToSet(alerts)

\* the exported values the extraction loop has examined so far (line 289)
Examined ==
    LET q == Flatten(jsModules)
    IN {q[i] : i \in {j \in 1..Len(q) :
                        j <= xpos \/ pc \in {"waitHost", "update", "done"}}}

\* C11: an exported value that is not a module descriptor (a helper, a
\* constant, null, undefined) is passed over silently: examining it raises no
\* error, nothing is logged or alerted for it, and the run is not aborted by it.
C11_NonDescriptorIgnoredSilently ==
    \A e \in Examined :
       e.v.kind # "module" =>
          /\ uncaught = ""
          /\ pc # "aborted"
          /\ \A i \in 1..Len(console) : ~(console[i].b = e.b /\ console[i].k = e.k)
          /\ \A i \in 1..Len(alerts) : ~(alerts[i].b = e.b /\ alerts[i].k = e.k)

\* C12: once isLoaded$ is true, a component whose id is neither in the host
\* registry nor in widgetFactories is in the Error state with the error kept
\* on the instance; the state is final, and a step that dispatches a
\* component neither changes another component nor the loader (no exception
\* leaves the dispatch).
C12_UnknownComponentIsolated ==
    /\ [](isLoaded =>
            \A c \in components :
               (GetById(hostState, c.componentId) = Undefined
                /\ c.componentId \notin DOMAIN widgetFactories) =>
                  c.state = "Error" /\ c.error = "unknown" /\ c.via = "none")
    /\ [][(isLoaded /\ components' # components) =>
             /\ components \subseteq components'
             /\ UNCHANGED loaderVars]_vars

\* after the batch, a request for an id nobody provides has failed on its own
\* instance, whether it was made before or after the flip, next to a resolved one
C12_Witness ==
    /\ isLoaded
    /\ \E c, o \in components :
          /\ c.componentId = "zz" /\ c.state = "Error" /\ c.error = "unknown"
          /\ o.componentId = "w1" /\ o.state = "Resolved"

\* the imported bundles none of whose exported values is a module
ZeroDescriptorBundles ==
    {jsModules[i].contextPath : i \in {j \in 1..Len(jsModules) :
        \A k \in 1..Len(jsModules[j].exports) : jsModules[j].exports[k].kind = "other"}}

\* what C13 says of a completed run apart from the warning
ZeroDescriptorsHarmless ==
    pc = "done" =>
       \A b \in ZeroDescriptorBundles :
          /\ isLoaded
          /\ \A id \in DOMAIN widgetFactories : widgetFactories[id].injector.b # b
          /\ \A i \in 1..Len(hostState) : hostState[i].b # b
          /\ b \notin SeqToSet(cleanupWidgetContextPath)
          /\ b \in SeqToSet(PersistedPaths(store)) \cup SeqToSet(app.widgetContextPaths)

\* C13: when a run completes and an imported bundle held no module, isLoaded$
\* is true, no widget of that bundle is registered, the bundle's identifier is
\* still in the stored list, and the user was warned about the bundle.
C13_ZeroDescriptorsWarned ==
    /\ ZeroDescriptorsHarmless
    /\ pc = "done" =>
          \A b \in ZeroDescriptorBundles :
             \E i \in 1..Len(alerts) : alerts[i].b = b

\* the definitions of the host registry that the bridge added
RuntimeDefinitions(hs) == {i \in 1..Len(hs) : hs[i].isRuntimeLoaded}

\* every identifier of the batch that the loop does not skip has been attempted
AllAttempted ==
    /\ idx = Len(contextPaths) + 1
    /\ SeqToSet(contextPaths) \ {""} = DOMAIN attempts

\* C17: a step that writes widgetFactories or adds a runtime definition to the
\* host registry starts in a state where every identifier of the batch has
\* been attempted and the host registry holds at least one entry.
C17_BridgeWritesAfterAttemptsAndHost ==
    [][(widgetFactories' # widgetFactories
        \/ RuntimeDefinitions(hostState') # RuntimeDefinitions(hostState)) =>
          /\ AllAttempted
          /\ hostState # <<>>
          /\ \E i \in 1..Len(hostState) : ~hostState[i].isRuntimeLoaded]_vars

\* the bridge has written, after two identifiers were attempted
C17_Witness ==
    /\ RegistrationDone
    /\ widgetFactories # <<>>
    /\ RuntimeDefinitions(hostState) # {}
    /\ Cardinality(DOMAIN attempts) = 2

\* the identifiers whose entry module was imported or is being imported
EntryImports ==
    {jsModules[i].contextPath : i \in 1..Len(jsModules)}
    \cup {b \in DOMAIN attempts : attempts[b] \in {"imported", "importFailed"}}
    \cup (IF pc = "import" THEN {contextPaths[idx]} ELSE {})

\* C18: the import of an identifier's entry module begins only in the step in
\* which the import of that identifier's manifest succeeds; an identifier
\* whose manifest import failed stays failed and its entry module is never
\* imported in the run.
C18_EntryImportAfterManifest ==
    /\ [][\A b \in EntryImports' \ EntryImports :
             /\ pc = "manifest" /\ contextPaths[idx] = b
             /\ pc' = "import" /\ idx' = idx
             /\ b \notin DOMAIN attempts]_vars
    /\ [][\A b \in DOMAIN attempts :
             attempts[b] = "manifestFailed" =>
                /\ b \in DOMAIN attempts' /\ attempts'[b] = "manifestFailed"
                /\ b \notin EntryImports']_vars

\* one identifier's manifest failed, another's entry module was imported
C18_Witness ==
    \E b, c \in DOMAIN attempts :
       /\ attempts[b] = "manifestFailed"
       /\ attempts[c] = "imported"
       /\ c \in EntryImports /\ b \notin EntryImports

\* has the activation of the module export e ended, well or badly?
ActivationEnded(e) ==
    \/ \E n \in 1..Len(ngModules) : ngModules[n].b = e.b /\ ngModules[n].k = e.k
    \/ LogEntry("compile", e.b, e.k, 0) \in SeqToSet(console)

\* C19 as first stated: when the import of an identifier's manifest begins,
\* every module of every identifier imported before has been extracted and
\* its activation has ended.
C19_FullyResolvedBeforeNext ==
    pc \in {"manifest", "import"} =>
       \A e \in SeqToSet(Flatten(jsModules)) :
          e.v.kind = "module" => ActivationEnded(e)

\* the position of a module among the exported values of the imported bundles
PositionOf(m) ==
    LET q == Flatten(jsModules)
    IN FirstIndex({i \in 1..Len(q) : q[i].b = m.b /\ q[i].k = m.k})

\* C19: the work is sequential in two phases. While identifiers are imported,
\* exactly the identifiers before the current one have been attempted, one
\* import is outstanding and nothing has been extracted or activated; the
\* imported bundles are kept in the order of the identifier list. Extraction
\* and activation begin when every identifier has been attempted, take the
\* exported values in that order, and one activation is outstanding at a time.
C19_ImportsThenActivations ==
    /\ pc \in {"manifest", "import"} =>
          /\ idx \in 1..Len(contextPaths)
          /\ contextPaths[idx] # ""
          /\ DOMAIN attempts = SeqToSet(SubSeq(contextPaths, 1, idx - 1)) \ {""}
          /\ xpos = 0
          /\ ngModules = <<>>
    /\ [i \in 1..Len(jsModules) |-> jsModules[i].contextPath] =
          Without(contextPaths,
                  {b \in SeqToSet(contextPaths) :
                      b \notin DOMAIN attempts \/ attempts[b] # "imported"})
    /\ pc = "compile" =>
          /\ AllAttempted
          /\ xpos \in 1..Len(Flatten(jsModules))
          /\ Flatten(jsModules)[xpos].v.kind = "module"
          /\ \A n \in 1..Len(ngModules) : PositionOf(ngModules[n]) \in 1..(xpos - 1)
    /\ \A m, n \in 1..Len(ngModules) :
          m < n => PositionOf(ngModules[m]) < PositionOf(ngModules[n])

\* two bundles were imported before the first module was activated, and the
\* activation of a later module is outstanding
C19_Witness ==
    /\ pc = "compile"
    /\ Len(jsModules) = 2
    /\ ngModules # <<>>

\* C20: widgetFactories is written only by the registration step of the one
\* run, which starts with isLoaded$ false and ends with it true; in a state
\* where isLoaded$ is true no step changes widgetFactories.
C20_RegistryReadOnlyAfterFlip ==
    /\ [][widgetFactories' # widgetFactories =>
             /\ ~isLoaded /\ isLoaded'
             /\ pc = "waitHost" /\ RegistrationDone']_vars
    /\ [][isLoaded => widgetFactories' = widgetFactories]_vars

\* after the flip a component was built from the table the batch wrote
C20_Witness ==
    /\ isLoaded
    /\ Cardinality(DOMAIN widgetFactories) = 2
    /\ \E c \in components :
          c.issued = "later" /\ c.loaded /\ c.via = "runtime" /\ c.state = "Resolved"

\* the identifier list the inventory holds for application a
PathsOf(st, a) ==
    LET rp == FindRuntimePath(st, a)
    IN IF rp = Undefined THEN <<>> ELSE rp.widgetContextPaths

\* the call of the installer has stored the widget's context path
Installed ==
    /\ install.process = "completed"
    /\ install.file.contextPath \in SeqToSet(PathsOf(store, install.app))

\* what C14 says, of the calls made through `entry`
SuccessOnlyWhenInstalled(entry) ==
    install.entry = entry =>
       /\ install.result = "resolved" => Installed
       /\ install.process = "failed" => install.result = "rejected"
       /\ install.result = "rejected" => ~Installed

\* installWidgetWithContext keeps to C14
InstallWithContextFaithful == SuccessOnlyWhenInstalled("installWidgetWithContext")

\* C14: when the promise of installWidget or installWidgetWithContext is
\* fulfilled the widget's context path is in the stored list of the target
\* application, when a step of the installation fails the promise is
\* rejected, and the modal shows 'Widget Added!' only for a fulfilled promise
\* and 'Failed to add widget!' with busy reset for a rejected one.
C14_SuccessOnlyForCompletedInstall ==
    /\ SuccessOnlyWhenInstalled("installWidget")
    /\ SuccessOnlyWhenInstalled("installWidgetWithContext")
    /\ modal.result = "Widget Added! Refreshing..." => Installed
    /\ (install.entry = "installWidget" /\ install.process = "failed") =>
          modal.result = "Failed to add widget!" /\ ~modal.busy

\* C15: in every state reached by a sequence of completed installs, removals
\* and loader runs, no identifier is twice in the list of a stored record; and
\* the step that stores the list of an install whose identifier was already
\* in the application's list leaves the inventory as it was.
C15_NoDuplicateIdentifiers ==
    /\ [](\A i \in 1..Len(store) : NoDuplicates(store[i].widgetContextPaths))
    /\ [][(/\ install.pc = "write"
           /\ install'.process = "completed"
           /\ install.file.contextPath \in SeqToSet(PathsOf(store, install.app))) =>
             store' = store]_vars

\* an install of an identifier that was in a list of two has completed
C15_Witness ==
    /\ install.process = "completed"
    /\ install.request.kind = "update"
    /\ install.file.contextPath \in SeqToSet(install.read.widgetContextPaths)
    /\ Len(install.read.widgetContextPaths) >= 2
    /\ PathsOf(store, install.app) = install.read.widgetContextPaths

\* the position in the inventory of the record removeWidgetFromApp works on
RemoveTarget(st, appId) == FirstIndex({i \in 1..Len(st) : st[i].appId = appId})

\* C16: a step of a call of removeWidgetFromApp changes nothing but the call
\* and the inventory; the inventory changes only in the step that
\* applies the call's update, which takes the identifier out of the list of
\* the application's record and leaves the other identifiers, their order,
\* the other records and the number of records as they were; and a call that
\* finds no record for the application, or not the identifier in its list,
\* ends without issuing an update.
C16_RemovesExactlyTheIdentifier ==
    [][remove.pc \in {"list", "update"} =>
         LET t == RemoveTarget(store, remove.appId)
         IN /\ remove' # remove =>
                  /\ UNCHANGED <<modal, install, isLoaded, hostState, components>>
                  /\ UNCHANGED loaderVars
            /\ store' # store =>
                  /\ remove.pc = "update"
                  /\ t # 0
                  /\ remove.contextPath \in SeqToSet(store[t].widgetContextPaths)
                  /\ store' = [store EXCEPT ![t].widgetContextPaths =
                                  Without(store[t].widgetContextPaths,
                                          {remove.contextPath})]
            /\ (remove.pc = "list" /\ remove' # remove
                /\ (t = 0 \/ remove.contextPath
                                \notin SeqToSet(store[t].widgetContextPaths))) =>
                  /\ remove'.pc = "idle"
                  /\ remove'.request = Undefined
                  /\ store' = store]_vars

\* a call has removed one identifier of two, and another found nothing to remove
C16_Witness ==
    /\ remove.outcome = "updated"
    /\ Len(remove.read.widgetContextPaths) >= 2
    /\ remove.contextPath \in SeqToSet(remove.read.widgetContextPaths)
    /\ remove.contextPath \notin SeqToSet(store[RemoveTarget(store, remove.appId)].widgetContextPaths)
    /\ Len(store[RemoveTarget(store, remove.appId)].widgetContextPaths)
          = Len(remove.read.widgetContextPaths) - 1

\* is an identifier marked for removal in the list of the record the loader read?
MarkedInRecord ==
    /\ AppRuntimePath # Undefined
    /\ SeqToSet(cleanupWidgetContextPath)
          \cap SeqToSet(AppRuntimePath.widgetContextPaths) # {}

\* C21: a run of loadRuntimeWidgets issues at most one invService.update; the
\* step that issues it is the step that sets isLoaded$ to true, and it starts
\* with an identifier marked for removal in the list of the record that was
\* read; the step that ends the registration with no such identifier (nothing
\* marked, no record, or the marked identifier only in the application's own
\* list) issues no update and ends the run.
C21_AtMostOneUpdateAfterFlip ==
    /\ [](Len(updates) <= 1)
    /\ [](updates # <<>> => isLoaded /\ RegistrationDone)
    /\ [][updates' # updates =>
             /\ pc = "waitHost" /\ ~isLoaded /\ isLoaded'
             /\ updates = <<>> /\ Len(updates') = 1
             /\ MarkedInRecord
             /\ updates'[1].id = AppRuntimePath.id]_vars
    /\ [][(pc = "waitHost" /\ pc' # pc /\ ~MarkedInRecord) =>
             updates' = updates /\ pc' = "done" /\ store' = store]_vars

\* a run has ended with its one update applied to the inventory
C21_Witness ==
    /\ pc = "done"
    /\ isLoaded
    /\ Len(updates) = 1
    /\ FindRuntimePath(store, app).widgetContextPaths = updates[1].widgetContextPaths

\* a run has ended without an update although an identifier was marked: the
\* identifier was in the application's own list only
C21_MarkedButNotInRecord ==
    /\ pc = "done"
    /\ cleanupWidgetContextPath # <<>>
    /\ AppRuntimePath # Undefined
    /\ updates = <<>>

\* C22: the step that applies the update of loadRuntimeWidgets' cleanup takes
\* out of the stored list of the application's record nothing but identifiers
\* marked for removal: what another writer has stored there since the loader
\* read the record is still in the list after the step.
C22_CleanupLosesOnlyMarked ==
    [][(pc = "update" /\ pc' = "done") =>
          \A b \in SeqToSet(PathsOf(store, app)) :
             \/ b \in SeqToSet(PathsOf(store', app))
             \/ b \in SeqToSet(cleanupWidgetContextPath)]_vars

\* an overlapping install stored its identifier after the loader had read the
\* record, and the loader's cleanup has written the list without it
C22_LostInstall ==
    /\ pc = "done"
    /\ updates # <<>>
    /\ installOther.process = "completed"
    /\ installOther.app = app
    /\ installOther.read # Undefined
    /\ installOther.read.widgetContextPaths = store[1].widgetContextPaths \o
          <<cleanupWidgetContextPath[1]>>
    /\ installOther.contextPath \notin SeqToSet(PathsOf(store, app))
    /\ installOther.contextPath \notin SeqToSet(cleanupWidgetContextPath)

\* does the host registry hold a definition for id that no bundle provided?
BuiltIn(hs, id) ==
    GetById(hs, id) # Undefined /\ ~GetById(hs, id).isRuntimeLoaded

\* C23: in every state, whatever isLoaded$ holds and wherever
\* loadRuntimeWidgets is (not called, under way, ended or aborted), a
\* component asked to render an id for which the host registry holds a
\* built-in definition has been handed to the host's componentFactoryResolver
\* and is Resolved with the host's factory and injector.
C23_BuiltInDispatchedWithoutWaiting ==
    \A c \in components :
       BuiltIn(hostState, c.componentId) =>
          /\ c.state = "Resolved"
          /\ c.via = "host"
          /\ c.error = ""
          /\ c.factory = Factory("", 0, 0, c.mode)
          /\ c.injector = HostInjector

\* loadRuntimeWidgets was aborted, isLoaded$ is false for good, and a built-in
\* component was dispatched while it was false
C23_Witness ==
    /\ pc = "aborted"
    /\ ~isLoaded
    /\ \E c \in components :
          /\ BuiltIn(hostState, c.componentId)
          /\ c.state = "Resolved" /\ c.via = "host" /\ ~c.loaded

\* the identifiers whose attempt has begun: ended, or awaiting an import
Started ==
    DOMAIN attempts
    \cup (IF pc \in {"manifest", "import"} THEN {contextPaths[idx]} ELSE {})

\* the non-empty identifiers of the application's list and of the list of its
\* record in the inventory
UnionRead ==
    (SeqToSet(app.widgetContextPaths) \cup SeqToSet(PathsOf(store, app))) \ {""}

\* C24: from the moment loadRuntimeWidgets has read the record until it writes
\* to the inventory, the identifiers whose attempt has begun are non-empty
\* identifiers of the application's list or of the record's list, each was
\* begun once (widgetCounter, raised at the start of each attempt, is their
\* number), and once the loop has ended they are all of them.
C24_AttemptsAreTheUnion ==
    (\/ pc \in {"manifest", "import", "compile", "waitHost", "update"}
     \/ pc = "aborted" /\ app # Undefined) =>
       /\ Started \subseteq UnionRead
       /\ widgetCounter = Cardinality(Started)
       /\ pc \notin {"manifest", "import"} => Started = UnionRead

\* the loop has ended: the lists shared an identifier and the record's list
\* held an empty one, and two identifiers were attempted
C24_Witness ==
    /\ pc = "waitHost"
    /\ AppRuntimePath # Undefined
    /\ SeqToSet(app.widgetContextPaths)
          \cap SeqToSet(AppRuntimePath.widgetContextPaths) # {}
    /\ "" \in SeqToSet(AppRuntimePath.widgetContextPaths)
    /\ contextPaths = <<"a", "">>
    /\ DOMAIN attempts = {"a"}
    /\ widgetCounter = 1

\* the records the inventory holds for an application
RecordsOf(st, appId) == {i \in 1..Len(st) : st[i].appId = appId}

\* C25: the inventory never holds two records for one application, and when
\* a call of the installer has completed, overlapped by another call or not,
\* it holds exactly one for the call's application.
C25_OneRecordPerApplication ==
    /\ \A appId \in AppIds : Cardinality(RecordsOf(store, appId)) <= 1
    /\ install.process = "completed" =>
          Cardinality(RecordsOf(store, install.app.id)) = 1
    /\ installOther.process = "completed" =>
          Cardinality(RecordsOf(store, installOther.app.id)) = 1

\* two calls for one application have completed, each having found no record
\* and created one
C25_TwoRecords ==
    /\ install.process = "completed" /\ installOther.process = "completed"
    /\ install.app.id = installOther.app.id
    /\ install.read = Undefined /\ installOther.read = Undefined
    /\ Cardinality(RecordsOf(store, install.app.id)) = 2

\* the message is closed in every state in which isLoaded$ is true
ClosedNoLaterThanFlip ==
    (isLoaded \/ pc = "done") => loadingAlert.state = "closed"

\* C26: a run of loadRuntimeWidgets that has ended, by returning or by
\* throwing, has closed the progress message if it opened it (after its end
\* the run takes no step that could close it), and the message is closed in
\* every state in which isLoaded$ is true.
C26_ProgressMessageClosed ==
    /\ pc \in {"done", "aborted"} => loadingAlert.state # "open"
    /\ ClosedNoLaterThanFlip

\* a run was aborted after the identifiers were attempted, the message open
C26_OpenAfterTypeError ==
    /\ pc = "aborted"
    /\ uncaught = "TypeError"
    /\ loadingAlert.state = "open"

====
